---- MODULE Spec2Model ----
(***************************************************************************)
(* Expense Receipt Processor, frontend session orchestrator.               *)
(*                                                                         *)
(* The orchestrator is frontend/app/page.tsx (second version in the file,  *)
(* lines 352-777: parallel Process All with retries).  The review          *)
(* component exists in two schema variants in the source:                  *)
(*   "flat"      frontend/components/ReceiptReview.tsx                     *)
(*   "sectioned" unnamed/part_003 (updateField, four sections) with the    *)
(*               types of unnamed/part_000 (lib/types)                     *)
(* A session runs one variant; the variable schema fixes which.            *)
(*                                                                         *)
(* JavaScript values are modelled as tagged records so that null, strings, *)
(* numbers and booleans can be compared: [t |-> "null"], [t |-> "str", s], *)
(* [t |-> "num", n], [t |-> "bool", b].  List indices are 0-based as in    *)
(* the code; At(rs, i) is rs[i] of the code.                               *)
(***************************************************************************)
EXTENDS Bags, FiniteSets, Integers, Naturals, Sequences, TLC

VARIABLES
    schema,              \* which ParsedReceipt variant the build uses
    appState,            \* page.tsx: 'upload' | 'review'
    receipts,            \* page.tsx: Receipt[]
    currentIndex,        \* page.tsx: index shown by ReceiptReview
    processing,          \* page.tsx: global Process All flag
    processingProgress,  \* page.tsx: {current, total}
    calls,               \* bag of HTTP calls / retry timers in flight
    nextId,              \* next fresh receipt id (Date.now + random)
    unhandled,           \* a rejection escaped processAllReceipts
    edits,               \* history: updateField calls of an EditSpec session
    reparses,            \* history: number of re-parse calls issued so far
    toProcess,           \* processAllReceipts: the {receipt, idx} list of the
                         \* run in progress (empty when none is)
    headerInfo,          \* page.tsx: HeaderInfo
    storage,             \* localStorage item 'expenseHeaderInfo'
    generating,          \* page.tsx: generating flag
    genRequest,          \* body of the /api/generate call in flight
    download,            \* the archive the browser was last told to save
    alertShown,          \* text of the last alert()
    selectedModel,       \* page.tsx: selectedModel
    modelsFetch,         \* the /api/models fetch of the mount effect
    loads                \* history: page loads after the first one

\* header form and Generate: untouched by the receipt steps
modelVars == <<selectedModel, modelsFetch>>

exportVars == <<headerInfo, storage, generating, genRequest, download,
                alertShown, loads, modelVars>>

vars == <<schema, appState, receipts, currentIndex, processing,
          processingProgress, calls, nextId, unhandled, edits, reparses,
          toProcess, exportVars>>

-----------------------------------------------------------------------------
(* Bounds of the model *)

MaxFiles == 2
MaxEdits == 1
MaxReparses == 1

MaxReloads == 1

-----------------------------------------------------------------------------
(* JavaScript values *)

Null == [t |-> "null"]
Str(s) == [t |-> "str", s |-> s]
Num(n) == [t |-> "num", n |-> n]
Bool(b) == [t |-> "bool", b |-> b]

MAX_RETRIES == 3

Schemas == {"flat", "sectioned"}

ActiveSection == {"travel_general", "travel_mileage", "hospitality", "other"}

Confidences == {"high", "medium", "low"}

-----------------------------------------------------------------------------
(* lib/types: the sectioned ParsedReceipt *)

TravelGeneralFields ==
    {"date", "mode", "is_return", "from_location", "to_location",
     "foreign_currency", "sterling_total", "is_non_uk_eu"}

TravelMileageFields ==
    {"date", "miles", "is_return", "from_location", "to_location",
     "cost_per_mile"}

HospitalityFields ==
    {"date", "principal_guest", "organisation", "total_numbers",
     "foreign_currency", "sterling_total", "non_college_staff"}

OtherFields ==
    {"date", "expense_type", "description", "foreign_currency",
     "sterling_total", "is_non_uk_eu"}

TypeSpecificFields(section) ==
    CASE section = "travel_general" -> TravelGeneralFields
      [] section = "travel_mileage" -> TravelMileageFields
      [] section = "hospitality" -> HospitalityFields
      [] section = "other" -> OtherFields

BooleanFields == {"is_return", "is_non_uk_eu", "non_college_staff"}

NumberFields == {"sterling_total", "miles", "cost_per_mile", "total_numbers"}

SelectFields == {"mode", "expense_type"}

createEmptyFields ==
    [s \in ActiveSection |->
        [f \in TypeSpecificFields(s) |->
            IF f \in BooleanFields THEN Bool(FALSE) ELSE Null]]

createEmptyParsedReceipt ==
    [t |-> "sectioned",
     active_section |-> "other",
     confidence |-> "low",
     raw_description |-> "",
     fields |-> createEmptyFields]

-----------------------------------------------------------------------------
(* page.tsx: the flat ParsedReceipt and the placeholder of processOne *)

emptyParsedFlat ==
    [t |-> "flat",
     expense_type |-> "OTHER",
     amount |-> 0,
     currency |-> "USD",
     date |-> "today",
     vendor |-> "Unknown",
     description |-> "Failed to parse after 3 attempts - please fill manually",
     guest_count |-> Null,
     is_group_expense |-> FALSE,
     confidence |-> "low"]

\* The placeholder written after the last failed attempt.  page.tsx builds
\* the flat literal; the sectioned schema's empty record is
\* createEmptyParsedReceipt of lib/types.
emptyParsed ==
    IF schema = "flat" THEN emptyParsedFlat ELSE createEmptyParsedReceipt

-----------------------------------------------------------------------------
(* What the backend may answer (data.parsed); the VLM is an opaque oracle *)

FilledSection(s) ==
    [f \in TypeSpecificFields(s) |->
        IF f \in BooleanFields THEN Bool(TRUE)
        ELSE IF f \in NumberFields THEN Num(1)
        ELSE Str("v")]

SectionedSample(s, c) ==
    [t |-> "sectioned",
     active_section |-> s,
     confidence |-> c,
     raw_description |-> "vlm",
     fields |-> [createEmptyFields EXCEPT ![s] = FilledSection(s)]]

FlatSample(c) ==
    [t |-> "flat",
     expense_type |-> "RAIL",
     amount |-> 45,
     currency |-> "USD",
     date |-> "2025-12-04",
     vendor |-> "Amtrak",
     description |-> "Train ticket",
     guest_count |-> Null,
     is_group_expense |-> FALSE,
     confidence |-> c]

ParseResponses ==
    IF schema = "flat"
    THEN {FlatSample("high")}
    ELSE {SectionedSample("hospitality", "high")}

\* Messages of the errors a call can end with: a non-OK status (page.tsx
\* line 500); 'Failed to reparse' (line 590).
ParseErrors == {"HTTP 500"}

\* The message the same line gives a response that rejects the input (an
\* unsupported file type, a corrupt image): a client-error status.
InputErrors == {"HTTP 400"}

ReparseErrors == {"Failed to reparse"}

NoError == "null"

\* `Failed after ${MAX_RETRIES} attempts: ${lastError?.message}`
FailedAfter(msg) ==
    CASE msg = "HTTP 500" -> "Failed after 3 attempts: HTTP 500"
      [] msg = "HTTP 400" -> "Failed after 3 attempts: HTTP 400"

-----------------------------------------------------------------------------
(* Receipts *)

FileNames == {"a.png"}

NoImage == 0

NewReceipt(id, name) ==
    [id |-> id,
     filename |-> name,
     file |-> TRUE,
     image_base64 |-> NoImage,
     thumbnail_base64 |-> NoImage,
     parsed |-> Null,
     approved |-> FALSE,
     processing |-> FALSE,
     error |-> NoError]

At(rs, i) == rs[i + 1]

Indices(rs) == 0 .. (Len(rs) - 1)

-----------------------------------------------------------------------------
(* Header info, its copy in localStorage, model list, Generate *)

\* keys of HeaderInfo in the order of the initial object literal
HeaderOrder ==
    <<"name", "cid", "dob", "address", "postcode", "bank_name", "bank_branch",
      "sort_code", "account_number", "foreign_currency", "exchange_rate">>

HeaderFields == {HeaderOrder[k] : k \in 1 .. Len(HeaderOrder)}

\* a name is held as name.split(' '), the sequence of its space-separated
\* words; ''.split(' ') is ['']
DefaultHeader ==
    [f \in HeaderFields |->
        CASE f = "name" -> <<"">>
          [] f = "foreign_currency" -> "USD"
          [] f = "exchange_rate" -> "0.79"
          [] OTHER -> ""]

\* positions of HeaderOrder whose key the object has, in order
RECURSIVE KeysOf(_, _)
KeysOf(h, k) ==
    IF k > Len(HeaderOrder) THEN <<>>
    ELSE (IF HeaderOrder[k] \in DOMAIN h THEN <<HeaderOrder[k]>> ELSE <<>>)
         \o KeysOf(h, k + 1)

\* JSON.stringify of a header object: its key/value pairs in key order
JSONstringify(h) ==
    LET keys == KeysOf(h, 1)
    IN  [k \in 1 .. Len(keys) |-> <<keys[k], h[keys[k]]>>]

\* JSON.parse of such a text: an object with exactly the pairs of the text
JSONparse(text) ==
    [f \in {text[k][1] : k \in 1 .. Len(text)} |->
        LET k == CHOOSE j \in 1 .. Len(text) : text[j][1] = f
        IN  text[k][2]]

\* localStorage.getItem returns null when the item was never set
NoItem == [present |-> FALSE, text |-> <<>>]

Item(text) == [present |-> TRUE, text |-> text]

\* Variant: the initializer takes the stored pairs but the exchange rate,
\* which it sets to the default.
LoadHeaderDefaulted(saved) ==
    IF saved.present
    THEN [f \in DOMAIN JSONparse(saved.text) |->
             IF f = "exchange_rate"
             THEN DefaultHeader[f]
             ELSE JSONparse(saved.text)[f]]
    ELSE DefaultHeader

\* useState initializer of headerInfo
LoadHeader(saved) ==
    IF saved.present THEN JSONparse(saved.text) ELSE DefaultHeader

DefaultModel == "qwen/qwen3-vl-235b-a22b-instruct"

\* data.models of /api/models, an answer of the server: ids only
ModelLists == {<<>>, <<"model-a", "model-b">>}

NoRequest == [t |-> "none"]

NoDownload == [t |-> "none"]

NoAlert == ""

\* the state after the first render and its effects, `saved` being what
\* localStorage held when the page was opened
Mount(saved) ==
    /\ schema \in Schemas
    /\ appState = "upload"
    /\ receipts = <<>>
    /\ currentIndex = 0
    /\ processing = FALSE
    /\ processingProgress = [current |-> 0, total |-> 0]
    /\ calls = EmptyBag
    /\ nextId = 1
    /\ unhandled = FALSE
    /\ edits = 0
    /\ reparses = 0
    /\ toProcess = {}
    /\ headerInfo = LoadHeader(saved)
    /\ storage = Item(JSONstringify(headerInfo))
    /\ generating = FALSE
    /\ genRequest = NoRequest
    /\ download = NoDownload
    /\ alertShown = NoAlert
    /\ loads = 0
    /\ selectedModel = DefaultModel
    /\ modelsFetch = "pending"

\* a browser that never opened the page
Init == Mount(NoItem)

-----------------------------------------------------------------------------
(* Upload screen *)

\* setReceipts((prev) => [...prev, ...newReceipts]) for a drop of one or two
\* files, while the session has handed out at most `limit` ids
FilesAdded(limit) ==
    /\ appState = "upload"
    /\ \E n \in 1 .. 2 :
        /\ nextId + n - 1 <= limit
        /\ \E name \in FileNames :
            receipts' = receipts \o
                [k \in 1 .. n |-> NewReceipt(nextId + k - 1, name)]
        /\ nextId' = nextId + n
    /\ UNCHANGED <<exportVars, toProcess, schema, appState, currentIndex, processing,
                   processingProgress, calls, unhandled, edits, reparses>>

handleFilesAdded == FilesAdded(MaxFiles)

\* "Clear all": setReceipts([])
ClearAll ==
    /\ appState = "upload"
    /\ Len(receipts) > 0
    /\ receipts' = <<>>
    /\ UNCHANGED <<exportVars, toProcess, schema, appState, currentIndex, processing,
                   processingProgress, calls, nextId, unhandled, edits,
                   reparses>>

-----------------------------------------------------------------------------
(* Process All: page.tsx processAllReceipts / processOne *)

\* Variant: the filter keeps every receipt that holds its file.
ToProcessWithFile(rs) ==
    {i \in Indices(rs) : At(rs, i).file}

\* receipts.map(...).filter(({ receipt }) => !receipt.parsed && receipt.file)
ToProcess(rs) ==
    {i \in Indices(rs) : At(rs, i).parsed = Null /\ At(rs, i).file}

\* "Mark all as processing"
MarkProcessing(prev, targets) ==
    [i \in 1 .. Len(prev) |->
        IF (i - 1) \in targets
        THEN [prev[i] EXCEPT !.processing = TRUE]
        ELSE prev[i]]

\* One processOne(receipt, idx) in its first attempt
ParseCall(rid, idx) ==
    [kind |-> "parse", rid |-> rid, idx |-> idx, attempt |-> 1,
     pc |-> "fetch", lastError |-> NoError]

\* Variant: the index test of the map is missing.
ApplyParseSuccessAll(prev, idx, image, parsed) ==
    [i \in 1 .. Len(prev) |->
        [prev[i] EXCEPT !.image_base64 = image,
                        !.thumbnail_base64 = image,
                        !.parsed = parsed,
                        !.processing = FALSE,
                        !.error = NoError]]

\* "Success - update receipt"
ApplyParseSuccess(prev, idx, image, parsed) ==
    [i \in 1 .. Len(prev) |->
        IF i - 1 = idx
        THEN [prev[i] EXCEPT !.image_base64 = image,
                             !.thumbnail_base64 = image,
                             !.parsed = parsed,
                             !.processing = FALSE,
                             !.error = NoError]
        ELSE prev[i]]

\* Variant: after the last failure only the error is recorded, no record.
ApplyPlaceholderErrorOnly(prev, idx, placeholder, msg) ==
    [i \in 1 .. Len(prev) |->
        IF i - 1 = idx
        THEN [prev[i] EXCEPT !.processing = FALSE,
                             !.error = FailedAfter(msg)]
        ELSE prev[i]]

\* "All retries failed - create placeholder for manual entry"
ApplyPlaceholder(prev, idx, placeholder, msg) ==
    [i \in 1 .. Len(prev) |->
        IF i - 1 = idx
        THEN [prev[i] EXCEPT !.parsed = placeholder,
                             !.processing = FALSE,
                             !.error = FailedAfter(msg)]
        ELSE prev[i]]

\* Variant: the last failure is rethrown instead of being absorbed.
RetryDecisionRethrow(attempt) ==
    IF attempt < MAX_RETRIES THEN "retry" ELSE "throw"

\* Variant: the loop bound is off by one, a fourth attempt is made.
RetryDecisionFourth(attempt) ==
    IF attempt <= MAX_RETRIES THEN "retry" ELSE "placeholder"

\* What follows the catch block of attempt number `attempt`: the loop
\* continues after the 1s wait while attempt < MAX_RETRIES, otherwise it is
\* left and the placeholder is written.  ("throw" is the outcome of a catch
\* block that lets the error escape; this code never produces it.)
RetryDecision(attempt) ==
    IF attempt < MAX_RETRIES THEN "retry" ELSE "placeholder"

\* Variant: the last promise is compared before it is counted, so the run
\* never sees all of its promises settled.
SettleStale ==
    /\ processingProgress' = [processingProgress EXCEPT !.current = @ + 1]
    /\ IF processingProgress.total - processingProgress.current = 0
          /\ ~unhandled
       THEN processing' = FALSE /\ appState' = "review" /\ toProcess' = {}
       ELSE UNCHANGED <<processing, appState, toProcess>>

\* promises of the running Process All that have not settled
Pending == processingProgress.total - processingProgress.current

\* completed++, setProcessingProgress, and the continuation of
\* `await Promise.all(promises)` once the last promise has settled
Settle ==
    /\ processingProgress' = [processingProgress EXCEPT !.current = @ + 1]
    /\ IF Pending - 1 = 0 /\ ~unhandled
       THEN processing' = FALSE /\ appState' = "review" /\ toProcess' = {}
       ELSE UNCHANGED <<processing, appState, toProcess>>

processAllReceipts ==
    /\ appState = "upload"
    /\ Len(receipts) > 0
    /\ ~processing
    /\ LET targets == ToProcess(receipts)
       IN  /\ receipts' = MarkProcessing(receipts, targets)
           /\ processingProgress' =
                  [current |-> 0, total |-> Cardinality(targets)]
           /\ calls' = calls (+)
                  SetToBag({ParseCall(At(receipts, i).id, i) : i \in targets})
           /\ IF targets = {}
              THEN /\ processing' = FALSE
                   /\ appState' = "review"
                   /\ toProcess' = {}
              ELSE /\ processing' = TRUE
                   /\ appState' = appState
                   /\ toProcess' =
                          {[rid |-> At(receipts, i).id, idx |-> i] : i \in targets}
    /\ UNCHANGED <<exportVars, schema, currentIndex, nextId, unhandled, edits,
                   reparses>>

\* /api/parse-receipt answered 200 with a JSON body
FetchOk(c) ==
    /\ c.kind = "parse"
    /\ c.pc = "fetch"
    /\ \E parsed \in ParseResponses :
        receipts' = ApplyParseSuccess(receipts, c.idx, c.rid, parsed)
    /\ calls' = calls (-) SetToBag({c})
    /\ Settle
    /\ UNCHANGED <<exportVars, schema, currentIndex, nextId, unhandled, edits,
                   reparses>>

\* the failed attempt was not the last: wait 1s, then try again
FailRetry(c, msg) ==
    /\ RetryDecision(c.attempt) = "retry"
    /\ calls' = (calls (-) SetToBag({c})) (+)
           SetToBag({[c EXCEPT !.pc = "sleep", !.lastError = msg]})
    /\ UNCHANGED <<receipts, processingProgress, processing, appState,
                   unhandled, toProcess>>

\* the loop is left: the placeholder is written and processOne returns
FailPlaceholder(c, msg) ==
    /\ RetryDecision(c.attempt) = "placeholder"
    /\ receipts' = ApplyPlaceholder(receipts, c.idx, emptyParsed, msg)
    /\ calls' = calls (-) SetToBag({c})
    /\ Settle
    /\ UNCHANGED unhandled

\* the rejection leaves processOne: Promise.all rejects and
\* processAllReceipts never reaches setProcessing(false)
FailThrow(c, msg) ==
    /\ RetryDecision(c.attempt) \notin {"retry", "placeholder"}
    /\ calls' = calls (-) SetToBag({c})
    /\ unhandled' = TRUE
    /\ UNCHANGED <<receipts, processingProgress, processing, appState,
                   toProcess>>

\* fetch rejected, the status was not OK, or res.json() threw
FetchFail(c) ==
    /\ c.kind = "parse"
    /\ c.pc = "fetch"
    /\ \E msg \in ParseErrors :
        FailRetry(c, msg) \/ FailPlaceholder(c, msg) \/ FailThrow(c, msg)
    /\ UNCHANGED <<exportVars, schema, currentIndex, nextId, edits, reparses>>

\* /api/parse-receipt rejected the file itself: the status is not OK and the
\* same throw / catch runs
FetchReject(c) ==
    /\ c.kind = "parse"
    /\ c.pc = "fetch"
    /\ \E msg \in InputErrors :
        FailRetry(c, msg) \/ FailPlaceholder(c, msg) \/ FailThrow(c, msg)
    /\ UNCHANGED <<exportVars, schema, currentIndex, nextId, edits, reparses>>

\* the 1s setTimeout before the next attempt fired
RetryTimer(c) ==
    /\ c.kind = "parse"
    /\ c.pc = "sleep"
    /\ calls' = (calls (-) SetToBag({c})) (+)
           SetToBag({[c EXCEPT !.pc = "fetch", !.attempt = @ + 1]})
    /\ UNCHANGED <<exportVars, toProcess, schema, appState, receipts, currentIndex, processing,
                   processingProgress, nextId, unhandled, edits, reparses>>

-----------------------------------------------------------------------------
(* Review screen: ReceiptReview (both variants) and the page.tsx handlers *)

\* const receipt = receipts[currentIndex]; the component renders its
\* controls only when the receipt exists
HasCurrent ==
    /\ appState = "review"
    /\ currentIndex \in Indices(receipts)

Current == At(receipts, currentIndex)

\* "<- Previous": Math.max(0, currentIndex - 1), disabled at index 0
Previous ==
    /\ HasCurrent
    /\ currentIndex # 0
    /\ currentIndex' = IF currentIndex - 1 > 0 THEN currentIndex - 1 ELSE 0
    /\ UNCHANGED <<exportVars, toProcess, schema, appState, receipts, processing, processingProgress,
                   calls, nextId, unhandled, edits, reparses>>

\* "Next ->": Math.min(receipts.length - 1, currentIndex + 1)
NextReceipt ==
    /\ HasCurrent
    /\ currentIndex # Len(receipts) - 1
    /\ currentIndex' = IF currentIndex + 1 < Len(receipts) - 1
                       THEN currentIndex + 1
                       ELSE Len(receipts) - 1
    /\ UNCHANGED <<exportVars, toProcess, schema, appState, receipts, processing, processingProgress,
                   calls, nextId, unhandled, edits, reparses>>

\* thumbnail strip: onIndexChange(idx)
SelectThumbnail ==
    /\ HasCurrent
    /\ \E idx \in Indices(receipts) :
        /\ idx # currentIndex
        /\ currentIndex' = idx
    /\ UNCHANGED <<exportVars, toProcess, schema, appState, receipts, processing, processingProgress,
                   calls, nextId, unhandled, edits, reparses>>

BackToUpload ==
    /\ appState = "review"
    /\ appState' = "upload"
    /\ UNCHANGED <<exportVars, toProcess, schema, receipts, currentIndex, processing,
                   processingProgress, calls, nextId, unhandled, edits,
                   reparses>>

\* Variant: the button is also disabled for a low-confidence record.
CanApproveConfident(r) ==
    r.parsed # Null /\ ~r.processing /\ r.parsed.confidence # "low"

\* Variant: the button is disabled only while the receipt is processing.
CanApproveUnparsed(r) == ~r.processing

\* Approve button: disabled={!receipt.parsed || receipt.processing}
CanApprove(r) == r.parsed # Null /\ ~r.processing

\* Variant: an approved receipt leaves the list.
ApplyApproveRemoves(prev, index) ==
    [k \in 1 .. Len(prev) - 1 |->
        IF k - 1 < index THEN prev[k] ELSE prev[k + 1]]

\* prev.map((r, idx) => (idx === index ? { ...r, approved: true } : r))
ApplyApprove(prev, index) ==
    [i \in 1 .. Len(prev) |->
        IF i - 1 = index
        THEN [prev[i] EXCEPT !.approved = TRUE]
        ELSE prev[i]]

handleApprove ==
    /\ HasCurrent
    /\ CanApprove(Current)
    /\ receipts' = ApplyApprove(receipts, currentIndex)
    /\ currentIndex' = IF currentIndex < Len(receipts) - 1
                       THEN currentIndex + 1
                       ELSE currentIndex
    /\ UNCHANGED <<exportVars, toProcess, schema, appState, processing, processingProgress, calls,
                   nextId, unhandled, edits, reparses>>

-----------------------------------------------------------------------------
(* Field edits: ReceiptReview.updateField (sectioned variant) *)

\* What the Field component passes to onChange: a checkbox gives
\* e.target.checked, a number input parseFloat(e.target.value) || 0, a
\* select '' ("Select...") or an option, a text input any string.
FieldInputs(field) ==
    IF field \in BooleanFields THEN {Bool(TRUE), Bool(FALSE)}
    ELSE IF field \in NumberFields THEN {Num(0), Num(2)}
    ELSE IF field \in SelectFields THEN {Str(""), Str("OTHER")}
    ELSE {Str(""), Str("w")}

\* Variant: only non-empty strings count as a real value.
IsRealValueStringsOnly(value) ==
    value.t = "str" /\ value.s # ""

\* value !== null && value !== '' && value !== false
IsRealValue(value) ==
    /\ value # Null
    /\ value # Str("")
    /\ value # Bool(FALSE)

\* Variant: the switch stores the field name instead of the section.
updateFieldWrongTag(parsed, section, field, value) ==
    LET newParsed == [parsed EXCEPT !.fields[section][field] = value]
    IN  IF section # parsed.active_section /\ IsRealValue(value)
        THEN [newParsed EXCEPT !.active_section = field]
        ELSE newParsed

\* Variant: the other sections are rebuilt empty instead of spread from
\* parsed.fields.
updateFieldResetOthers(parsed, section, field, value) ==
    LET newParsed ==
            [parsed EXCEPT !.fields =
                [createEmptyFields EXCEPT ![section] =
                    [parsed.fields[section] EXCEPT ![field] = value]]]
    IN  IF section # parsed.active_section /\ IsRealValue(value)
        THEN [newParsed EXCEPT !.active_section = section]
        ELSE newParsed

\* newParsed of updateField
updateField(parsed, section, field, value) ==
    LET newParsed == [parsed EXCEPT !.fields[section][field] = value]
    IN  IF section # parsed.active_section /\ IsRealValue(value)
        THEN [newParsed EXCEPT !.active_section = section]
        ELSE newParsed

\* onUpdateParsed(index, newParsed): the handler of page.tsx that the
\* sectioned ReceiptReview is given; it stores the record on that receipt.
handleUpdateParsed(prev, index, newParsed) ==
    [i \in 1 .. Len(prev) |->
        IF i - 1 = index
        THEN [prev[i] EXCEPT !.parsed = newParsed]
        ELSE prev[i]]

\* The section bodies are rendered only under `parsed && !receipt.processing`
CanEdit ==
    /\ schema = "sectioned"
    /\ HasCurrent
    /\ Current.parsed # Null
    /\ ~Current.processing

EditField(section, field, value) ==
    /\ CanEdit
    /\ receipts' = handleUpdateParsed(receipts, currentIndex,
                       updateField(Current.parsed, section, field, value))
    /\ UNCHANGED <<exportVars, toProcess, schema, appState, currentIndex, processing,
                   processingProgress, calls, nextId, unhandled, reparses>>

\* The edit a session makes in the orchestrator model, any number of
\* times: a date typed into the Travel General section.  EditSpec below
\* edits every field with every value.
SessionEdits == {<<"travel_general", "date", Str("w")>>}

UpdateField ==
    /\ \E e \in SessionEdits : EditField(e[1], e[2], e[3])
    /\ UNCHANGED edits

-----------------------------------------------------------------------------
(* Re-parse: ReceiptReview.handleReparse -> page.tsx handleReparse *)

\* The flat component disables the button by
\* `!userInput.trim() || receipt.processing`; the sectioned component
\* renders the chat box inside the `parsed && !receipt.processing` block.
CanReparse ==
    /\ HasCurrent
    /\ ~Current.processing
    /\ schema = "sectioned" => Current.parsed # Null

ReparseCall(rid, index, orig) ==
    [kind |-> "reparse", rid |-> rid, idx |-> index, orig |-> orig]

RefinedSection(s) ==
    [f \in TypeSpecificFields(s) |->
        IF f \in BooleanFields THEN Bool(FALSE)
        ELSE IF f \in NumberFields THEN Num(3)
        ELSE Str("r")]

\* The section the corrections of a session are about
CorrectedSections == {"travel_mileage"}

\* Backend /api/reparse (refine_receipt): the updated record for a prior
\* record and a correction.  The correction is about one section; the
\* other sections come back with the values that were sent.
RefineResponses(orig) ==
    IF schema = "flat" \/ orig = Null
    THEN ParseResponses
    ELSE {[t |-> "sectioned",
           active_section |-> target,
           confidence |-> "medium",
           raw_description |-> "refined",
           fields |-> [orig.fields EXCEPT ![target] = RefinedSection(target)]]
          : target \in CorrectedSections}

\* prev.map((r, idx) => (idx === index ? { ...r, processing: true } : r))
MarkReparsing(prev, index) ==
    [i \in 1 .. Len(prev) |->
        IF i - 1 = index
        THEN [prev[i] EXCEPT !.processing = TRUE]
        ELSE prev[i]]

\* Variant: a refined record has to be approved again.
ApplyReparseSuccessUnapproves(prev, index, parsed) ==
    [i \in 1 .. Len(prev) |->
        IF i - 1 = index
        THEN [prev[i] EXCEPT !.parsed = parsed,
                             !.processing = FALSE,
                             !.error = NoError,
                             !.approved = FALSE]
        ELSE prev[i]]

ApplyReparseSuccess(prev, index, parsed) ==
    [i \in 1 .. Len(prev) |->
        IF i - 1 = index
        THEN [prev[i] EXCEPT !.parsed = parsed,
                             !.processing = FALSE,
                             !.error = NoError]
        ELSE prev[i]]

\* Variant: the index test of the map is missing.
ApplyReparseFailureAll(prev, index, msg) ==
    [i \in 1 .. Len(prev) |->
        [prev[i] EXCEPT !.processing = FALSE, !.error = msg]]

\* Variant: the failure also withdraws the approval.
ApplyReparseFailureRevokes(prev, index, msg) ==
    [i \in 1 .. Len(prev) |->
        IF i - 1 = index
        THEN [prev[i] EXCEPT !.processing = FALSE,
                             !.error = msg,
                             !.approved = FALSE]
        ELSE prev[i]]

ApplyReparseFailure(prev, index, msg) ==
    [i \in 1 .. Len(prev) |->
        IF i - 1 = index
        THEN [prev[i] EXCEPT !.processing = FALSE,
                             !.error = msg]
        ELSE prev[i]]

handleReparse ==
    /\ CanReparse
    /\ reparses < MaxReparses
    /\ calls' = calls (+)
           SetToBag({ReparseCall(Current.id, currentIndex, Current.parsed)})
    /\ receipts' = MarkReparsing(receipts, currentIndex)
    /\ reparses' = reparses + 1
    /\ UNCHANGED <<exportVars, toProcess, schema, appState, currentIndex, processing,
                   processingProgress, nextId, unhandled, edits>>

ReparseOk(c) ==
    /\ c.kind = "reparse"
    /\ \E parsed \in RefineResponses(c.orig) :
        receipts' = ApplyReparseSuccess(receipts, c.idx, parsed)
    /\ calls' = calls (-) SetToBag({c})
    /\ UNCHANGED <<exportVars, toProcess, schema, appState, currentIndex, processing,
                   processingProgress, nextId, unhandled, edits, reparses>>

ReparseFail(c) ==
    /\ c.kind = "reparse"
    /\ \E msg \in ReparseErrors :
        receipts' = ApplyReparseFailure(receipts, c.idx, msg)
    /\ calls' = calls (-) SetToBag({c})
    /\ UNCHANGED <<exportVars, toProcess, schema, appState, currentIndex, processing,
                   processingProgress, nextId, unhandled, edits, reparses>>

-----------------------------------------------------------------------------
(* Header form, localStorage, Generate *)

\* the fields the form has an input for: all but bank_branch
FormFields == HeaderFields \ {"bank_branch"}

\* what the inputs of the header form are given in a session
HeaderInputs(field) ==
    CASE field = "name" -> {<<"Ada", "Lovelace">>, <<"Ada", "">>}
      [] field = "foreign_currency" -> {"EUR"}
      [] field = "exchange_rate" -> {"0.85"}
      [] OTHER -> {"x"}

\* Variant: every edit also clears the exchange rate.
updateClearsRate(h, field, value) ==
    [f \in DOMAIN h \cup {field, "exchange_rate"} |->
        IF f = field THEN value
        ELSE IF f = "exchange_rate" THEN "" ELSE h[f]]

\* HeaderForm.update: { ...headerInfo, [field]: value }
update(h, field, value) ==
    [f \in DOMAIN h \cup {field} |-> IF f = field THEN value ELSE h[f]]

\* onChange = setHeaderInfo, then the effect on [headerInfo] stores the
\* new header
EditHeader(field, value) ==
    /\ headerInfo' = update(headerInfo, field, value)
    /\ storage' = Item(JSONstringify(headerInfo'))
    /\ UNCHANGED <<toProcess, schema, appState, receipts, currentIndex,
                   processing, processingProgress, calls, nextId, unhandled,
                   edits, reparses, generating, genRequest, download,
                   alertShown, loads,
                   modelVars>>

\* the header edits of a session that also processes receipts
SessionHeaderEdits == {<<"name", <<"Ada", "Lovelace">>>>}

updateHeader == \E e \in SessionHeaderEdits : EditHeader(e[1], e[2])

updateAnyHeader ==
    \E field \in FormFields :
        \E value \in HeaderInputs(field) \cup {DefaultHeader[field]} :
            /\ field \in DOMAIN headerInfo => value # headerInfo[field]
            /\ EditHeader(field, value)

\* The page is loaded again in the same browser: every hook starts from its
\* initial value, headerInfo from the stored item, and the mount effect
\* stores it again.  Calls of the old page are gone with it.
Reload ==
    /\ loads < MaxReloads
    /\ loads' = loads + 1
    /\ headerInfo' = LoadHeader(storage)
    /\ storage' = Item(JSONstringify(headerInfo'))
    /\ appState' = "upload"
    /\ receipts' = <<>>
    /\ currentIndex' = 0
    /\ processing' = FALSE
    /\ processingProgress' = [current |-> 0, total |-> 0]
    /\ calls' = EmptyBag
    /\ unhandled' = FALSE
    /\ toProcess' = {}
    /\ generating' = FALSE
    /\ genRequest' = NoRequest
    /\ download' = NoDownload
    /\ alertShown' = NoAlert
    /\ selectedModel' = DefaultModel
    /\ modelsFetch' = "pending"
    /\ UNCHANGED <<schema, nextId, edits, reparses>>

\* the mount effect's fetch of /api/models resolved: setModels, and
\* setSelectedModel(data.models[0].id) when the list is not empty
ModelsLoaded ==
    /\ modelsFetch = "pending"
    /\ modelsFetch' = "settled"
    /\ \E models \in ModelLists :
        selectedModel' = IF Len(models) > 0 THEN models[1] ELSE selectedModel
    /\ UNCHANGED <<toProcess, schema, appState, receipts, currentIndex,
                   processing, processingProgress, calls, nextId, unhandled,
                   edits, reparses, headerInfo, storage, generating,
                   genRequest, download, alertShown, loads>>

\* .catch(console.error)
ModelsFailed ==
    /\ modelsFetch = "pending"
    /\ modelsFetch' = "settled"
    /\ UNCHANGED <<toProcess, schema, appState, receipts, currentIndex,
                   processing, processingProgress, calls, nextId, unhandled,
                   edits, reparses, headerInfo, storage, generating,
                   genRequest, download, alertShown, loads, selectedModel>>

approvedCount == Cardinality({i \in Indices(receipts) : At(receipts, i).approved})

\* Variant: every receipt with a record is sent, approved or not.
GenerateReceiptsParsed(rs) ==
    LET sel == SelectSeq(rs, LAMBDA r : r.parsed # Null)
    IN  [k \in 1 .. Len(sel) |->
            [filename |-> sel[k].filename,
             image_base64 |-> sel[k].image_base64,
             parsed |-> sel[k].parsed,
             approved |-> sel[k].approved]]

\* receipts.filter((r) => r.approved && r.parsed).map(...)
GenerateReceipts(rs) ==
    LET sel == SelectSeq(rs, LAMBDA r : r.approved /\ r.parsed # Null)
    IN  [k \in 1 .. Len(sel) |->
            [filename |-> sel[k].filename,
             image_base64 |-> sel[k].image_base64,
             parsed |-> sel[k].parsed,
             approved |-> sel[k].approved]]

\* Variant: the button is disabled only while nothing is approved.
GenerateDisabledNoneApproved == approvedCount = 0

\* Generate button: disabled={generating || approvedCount === 0}
GenerateDisabled == generating \/ approvedCount = 0

\* onClick of the Generate button: setGenerating(true) and the POST of
\* /api/generate
handleGenerate ==
    /\ appState = "review"
    /\ ~GenerateDisabled
    /\ generating' = TRUE
    /\ genRequest' = [header_info |-> headerInfo,
                      receipts |-> GenerateReceipts(receipts)]
    /\ UNCHANGED <<toProcess, schema, appState, receipts, currentIndex,
                   processing, processingProgress, calls, nextId, unhandled,
                   edits, reparses, headerInfo, storage, download, alertShown,
                   loads,
                   modelVars>>

\* `${headerInfo.name.split(' ').pop() || 'Expense'}_expenses.zip`, with the
\* headerInfo of the render in which Generate was pressed
DownloadName(name) ==
    [stem |-> IF name[Len(name)] = "" THEN "Expense" ELSE name[Len(name)],
     suffix |-> "_expenses.zip"]

\* the response was OK: the blob is saved, then setGenerating(false)
GenerateOk ==
    /\ generating
    /\ download' = DownloadName(genRequest.header_info["name"])
    /\ generating' = FALSE
    /\ genRequest' = NoRequest
    /\ UNCHANGED <<toProcess, schema, appState, receipts, currentIndex,
                   processing, processingProgress, calls, nextId, unhandled,
                   edits, reparses, headerInfo, storage,
                   alertShown, loads,
                   modelVars>>

\* the status was not OK; a rejected fetch takes the same path with the
\* message of the browser
GenerateErrors == {"Failed to generate"}

\* 'Error generating: ' + message
ErrorGenerating(msg) ==
    CASE msg = "Failed to generate" -> "Error generating: Failed to generate"

\* Variant: setGenerating(false) sits inside the try block.
GenerateFailStuck ==
    /\ generating
    /\ \E msg \in GenerateErrors : alertShown' = ErrorGenerating(msg)
    /\ UNCHANGED <<toProcess, schema, appState, receipts, currentIndex,
                   processing, processingProgress, calls, nextId, unhandled,
                   edits, reparses, headerInfo, storage, genRequest,
                   download, generating, loads,
                   modelVars>>

\* the catch block: alert, then setGenerating(false)
GenerateFail ==
    /\ generating
    /\ \E msg \in GenerateErrors : alertShown' = ErrorGenerating(msg)
    /\ generating' = FALSE
    /\ genRequest' = NoRequest
    /\ UNCHANGED <<toProcess, schema, appState, receipts, currentIndex,
                   processing, processingProgress, calls, nextId, unhandled,
                   edits, reparses, headerInfo, storage,
                   download, loads,
                   modelVars>>

-----------------------------------------------------------------------------
(* Specification *)

InFlight == BagToSet(calls)

ParseResolves == \E c \in InFlight : FetchOk(c)

ParseRejects == \E c \in InFlight : FetchFail(c)

RetryTimerFires == \E c \in InFlight : RetryTimer(c)

ReparseResolves == \E c \in InFlight : ReparseOk(c)

ReparseRejects == \E c \in InFlight : ReparseFail(c)

\* Every step but the approval.  handleApprove writes only
\* receipts[index].approved and currentIndex; no step of extraction or
\* re-parse reads approved, and the navigation steps set currentIndex too.
ProcessingNext ==
    \/ handleFilesAdded
    \/ ClearAll
    \/ processAllReceipts
    \/ ParseResolves
    \/ ParseRejects
    \/ RetryTimerFires
    \/ Previous
    \/ NextReceipt
    \/ SelectThumbnail
    \/ BackToUpload
    \/ UpdateField
    \/ handleReparse
    \/ ReparseResolves
    \/ ReparseRejects

Next ==
    \/ ProcessingNext
    \/ handleApprove

Spec == Init /\ [][Next]_vars

\* Every HTTP call eventually resolves or rejects, and timers fire.  The
\* liveness specification runs the steps of ProcessingNext.
LiveSpec ==
    /\ Init
    /\ [][ProcessingNext]_vars
    /\ WF_vars(ParseResolves \/ ParseRejects)
    /\ WF_vars(RetryTimerFires)

\* Sessions on the upload screen in which the server also rejects inputs.
InputRejects == \E c \in InFlight : FetchReject(c)

RejectNext ==
    \/ handleFilesAdded
    \/ processAllReceipts
    \/ ParseResolves
    \/ ParseRejects
    \/ InputRejects
    \/ RetryTimerFires

RejectSpec == Init /\ [][RejectNext]_vars

\* Sessions that extract, approve and generate: no field edits and no
\* re-parse, which write only receipts[i].parsed.
GenNext ==
    \/ handleFilesAdded
    \/ ClearAll
    \/ processAllReceipts
    \/ ParseResolves
    \/ ParseRejects
    \/ RetryTimerFires
    \/ Previous
    \/ NextReceipt
    \/ BackToUpload
    \/ handleApprove
    \/ updateHeader
    \/ handleGenerate
    \/ GenerateOk
    \/ GenerateFail

GenSpec == Init /\ [][GenNext]_vars

\* Every step of the page.
FullNext ==
    \/ Next
    \/ ModelsLoaded
    \/ ModelsFailed
    \/ updateHeader
    \/ handleGenerate
    \/ GenerateOk
    \/ GenerateFail

FullSpec == Init /\ [][FullNext]_vars

\* Sessions of the header form alone: every field, every input, reloads.
HeaderNext ==
    \/ updateAnyHeader
    \/ Reload

\* the header the earlier build of the page starts with and stores: no
\* currency fields
EarlierHeader ==
    [f \in HeaderFields \ {"foreign_currency", "exchange_rate"} |->
        DefaultHeader[f]]

\* what the browser may hold when the page is opened
StoredBefore == {NoItem, Item(JSONstringify(EarlierHeader))}

InitHeader == \E saved \in StoredBefore : Mount(saved)

HeaderSpec == InitHeader /\ [][HeaderNext]_vars

TypeOK ==
    /\ schema \in Schemas
    /\ appState \in {"upload", "review"}
    /\ Len(receipts) <= MaxFiles
    /\ currentIndex \in 0 .. MaxFiles
    /\ processing \in BOOLEAN
    /\ Pending \in 0 .. MaxFiles
    /\ nextId \in 1 .. MaxFiles + 1
    /\ edits \in 0 .. MaxEdits
    /\ reparses \in 0 .. MaxReparses
    /\ \A t \in toProcess : t.rid \in 1 .. MaxFiles /\ t.idx \in 0 .. MaxFiles - 1
    /\ DOMAIN headerInfo \subseteq HeaderFields
    /\ storage.present \in BOOLEAN
    /\ generating \in BOOLEAN
    /\ loads \in 0 .. MaxReloads
    /\ modelsFetch \in {"pending", "settled"}

-----------------------------------------------------------------------------
(* A review session that edits every field: the state after a Process All  *)
(* run over one receipt (extracted, refined or placeholder), then           *)
(* updateField with every section, field and value.                         *)

\* values updateField can be given: what the inputs produce, and null,
\* which the parameter type admits for the nullable fields
EditValues(field) ==
    FieldInputs(field) \cup (IF field \in BooleanFields THEN {} ELSE {Null})

ReviewedRecords ==
    {SectionedSample("hospitality", "high"), createEmptyParsedReceipt}
    \cup {[SectionedSample("hospitality", "high")
              EXCEPT !.active_section = target,
                     !.confidence = "medium",
                     !.fields[target] = RefinedSection(target)]
          : target \in CorrectedSections}

ReviewedReceipt(id, parsed) ==
    [NewReceipt(id, "a.png") EXCEPT
        !.parsed = parsed,
        !.image_base64 = IF parsed = createEmptyParsedReceipt THEN NoImage ELSE id,
        !.thumbnail_base64 = IF parsed = createEmptyParsedReceipt THEN NoImage ELSE id,
        !.error = IF parsed = createEmptyParsedReceipt
                  THEN FailedAfter("HTTP 500") ELSE NoError]

InitEdit ==
    /\ schema = "sectioned"
    /\ appState = "review"
    /\ \E parsed \in ReviewedRecords :
        /\ receipts = <<ReviewedReceipt(1, parsed)>>
        /\ reparses = IF parsed.confidence = "medium" THEN 1 ELSE 0
    /\ processingProgress = [current |-> 1, total |-> 1]
    /\ nextId = 2
    /\ currentIndex = 0
    /\ processing = FALSE
    /\ calls = EmptyBag
    /\ unhandled = FALSE
    /\ edits = 0
    /\ toProcess = {}
    /\ headerInfo = LoadHeader(NoItem)
    /\ storage = Item(JSONstringify(headerInfo))
    /\ generating = FALSE
    /\ genRequest = NoRequest
    /\ download = NoDownload
    /\ alertShown = NoAlert
    /\ loads = 0
    /\ selectedModel = DefaultModel
    /\ modelsFetch = "pending"

UpdateAnyField ==
    /\ edits < MaxEdits
    /\ edits' = edits + 1
    /\ \E section \in ActiveSection :
        \E field \in TypeSpecificFields(section) :
            \E value \in EditValues(field) :
                EditField(section, field, value)

EditSpec == InitEdit /\ [][UpdateAnyField]_vars

-----------------------------------------------------------------------------
(* Generation of a batch: a review session over MaxBatch extracted          *)
(* receipts, and the template filler behind /api/generate, which is not     *)
(* part of the sources and is taken from the specification.                 *)

\* E1 Form Section Details: the rows of each section's region
SectionRows(s) ==
    CASE s = "travel_general" -> [first |-> 13, last |-> 18]
      [] s = "travel_mileage" -> [first |-> 23, last |-> 26]
      [] s = "hospitality" -> [first |-> 32, last |-> 35]
      [] s = "other" -> [first |-> 41, last |-> 47]

\* Variant: a region takes any number of entries.
CapacityUnbounded(s) == SectionRows(s).last

Capacity(s) == SectionRows(s).last - SectionRows(s).first + 1

\* the entries of a request whose active section is s, in request order
SectionEntries(entries, s) ==
    SelectSeq(entries, LAMBDA e : e.parsed.active_section = s)

\* The template filler: an explicit capacity error when a section has more
\* entries than rows, otherwise every entry on a row of its region.
fill_excel_template(request) ==
    IF \E s \in ActiveSection :
           Len(SectionEntries(request.receipts, s)) > Capacity(s)
    THEN [status |-> "capacity error", rows |-> <<>>]
    ELSE [status |-> "ok",
          rows |-> [s \in ActiveSection |->
                       SectionEntries(request.receipts, s)]]

\* README: receipts/ holds renamed files like
\* HOSPITALITY_2025-12-05_monzu_199.61USD.png: section tag, date, and the
\* description and amount tokens, which are taken from the section's fields
RenamedBase(entry) ==
    LET section == entry.parsed.active_section
    IN  [tag |-> section,
         date |-> entry.parsed.fields[section]["date"],
         tokens |-> entry.parsed.fields[section]]

\* Variant: the pattern alone names the file.
create_output_zipPatternOnly(request) ==
    [k \in 1 .. Len(request.receipts) |->
        [base |-> RenamedBase(request.receipts[k]), suffix |-> 0]]

\* The names of the renamed copies in the archive, in request order: the
\* pattern, and the position in the batch as a suffix where the pattern of
\* another entry is the same (original filenames can repeat, so they do not
\* tell entries apart).
create_output_zip(request) ==
    LET entries == request.receipts
        Collides(k) ==
            \E j \in 1 .. Len(entries) :
                j # k /\ RenamedBase(entries[j]) = RenamedBase(entries[k])
    IN  [k \in 1 .. Len(entries) |->
            [base |-> RenamedBase(entries[k]),
             suffix |-> IF Collides(k) THEN k ELSE 0]]

\* /api/generate answered with the archive
GenerateAccepted ==
    /\ generating
    /\ fill_excel_template(genRequest).status = "ok"
    /\ GenerateOk

\* /api/generate answered with the error of the filler: a non-OK status
GenerateRejected ==
    /\ generating
    /\ fill_excel_template(genRequest).status # "ok"
    /\ GenerateFail

MaxBatch == 5

BatchSections == {"hospitality", "travel_general"}

InitBatch ==
    /\ schema = "sectioned"
    /\ appState = "review"
    /\ \E sections \in [1 .. MaxBatch -> BatchSections] :
        receipts = [k \in 1 .. MaxBatch |->
                       ReviewedReceipt(k, SectionedSample(sections[k], "high"))]
    /\ processingProgress = [current |-> MaxBatch, total |-> MaxBatch]
    /\ nextId = MaxBatch + 1
    /\ currentIndex = 0
    /\ processing = FALSE
    /\ calls = EmptyBag
    /\ unhandled = FALSE
    /\ edits = 0
    /\ reparses = 0
    /\ toProcess = {}
    /\ headerInfo = LoadHeader(NoItem)
    /\ storage = Item(JSONstringify(headerInfo))
    /\ generating = FALSE
    /\ genRequest = NoRequest
    /\ download = NoDownload
    /\ alertShown = NoAlert
    /\ loads = 0
    /\ selectedModel = DefaultModel
    /\ modelsFetch = "pending"

BatchNext ==
    \/ NextReceipt
    \/ handleApprove
    \/ handleGenerate
    \/ GenerateAccepted
    \/ GenerateRejected

BatchSpec == InitBatch /\ [][BatchNext]_vars

-----------------------------------------------------------------------------
(* Navigation: a session that continues after a finished run over MaxFiles  *)
(* files, with up to MaxRefill files dropped later.                         *)

MaxRefill == 1

InitNav ==
    /\ schema = "sectioned"
    /\ appState = "review"
    /\ receipts = [k \in 1 .. MaxFiles |->
                      ReviewedReceipt(k, SectionedSample("hospitality", "high"))]
    /\ processingProgress = [current |-> MaxFiles, total |-> MaxFiles]
    /\ nextId = MaxFiles + 1
    /\ currentIndex = 0
    /\ processing = FALSE
    /\ calls = EmptyBag
    /\ unhandled = FALSE
    /\ edits = 0
    /\ reparses = 0
    /\ toProcess = {}
    /\ headerInfo = LoadHeader(NoItem)
    /\ storage = Item(JSONstringify(headerInfo))
    /\ generating = FALSE
    /\ genRequest = NoRequest
    /\ download = NoDownload
    /\ alertShown = NoAlert
    /\ loads = 0
    /\ selectedModel = DefaultModel
    /\ modelsFetch = "pending"

handleFilesAddedLater == FilesAdded(MaxFiles + MaxRefill)

NavNext ==
    \/ handleFilesAddedLater
    \/ ClearAll
    \/ processAllReceipts
    \/ ParseResolves
    \/ ParseRejects
    \/ RetryTimerFires
    \/ BackToUpload
    \/ Previous
    \/ NextReceipt
    \/ SelectThumbnail
    \/ handleApprove

NavSpec == InitNav /\ [][NavNext]_vars

-----------------------------------------------------------------------------
(* Properties *)

\* The receipt a call writes to: the one at the list index the call was
\* issued for (none once the list is shorter).
ReceiptOf(c) == {i \in Indices(receipts) : i = c.idx}

\* number of calls in flight for the receipt at this index
CallsFor(idx) ==
    LET cs == {c \in InFlight : c.idx = idx}
        RECURSIVE Sum(_)
        Sum(S) == IF S = {} THEN 0
                  ELSE LET c == CHOOSE x \in S : TRUE
                       IN  CopiesIn(c, calls) + Sum(S \ {c})
    IN  Sum(cs)

\* C1: when the extraction call of a receipt fails on its third attempt, the
\* receipt gets a parsed record of confidence "low", a non-empty error
\* message and processing = false, and no rejection leaves
\* processAllReceipts.
C1_PlaceholderAfterRetries ==
    [][\A c \in InFlight :
          (FetchFail(c) /\ c.attempt = MAX_RETRIES) =>
              /\ ~unhandled'
              /\ \A i \in ReceiptOf(c) :
                    /\ At(receipts', i).parsed # Null
                    /\ At(receipts', i).parsed.confidence = "low"
                    /\ At(receipts', i).error \notin {NoError, ""}
                    /\ ~At(receipts', i).processing]_vars

C1_Witness ==
    \E i \in Indices(receipts) :
        /\ At(receipts, i).parsed = emptyParsed
        /\ At(receipts, i).error = FailedAfter("HTTP 500")
        /\ ~At(receipts, i).processing
        /\ At(receipts, i).image_base64 = NoImage

\* C2: at most one extraction or re-parse call is in flight for any receipt
\* of the list.
C2_SingleFlight ==
    \A i \in Indices(receipts) : CallsFor(i) <= 1

NonEmptyValue(value) ==
    /\ value.t # "null"
    /\ value.t = "str" => value.s # ""
    /\ value.t = "bool" => value.b

\* C4: an edit of a field of a section that is not the active one, with a
\* non-empty value, makes that section the active section of the receipt.
C4_EditSwitchesSection ==
    [][\A section \in ActiveSection :
        \A field \in TypeSpecificFields(section) :
          \A value \in EditValues(field) :
            (/\ EditField(section, field, value)
             /\ section # Current.parsed.active_section
             /\ NonEmptyValue(value))
            => At(receipts', currentIndex).parsed.active_section = section]_vars

C4_Witness ==
    /\ edits > 0
    /\ HasCurrent
    /\ Current.parsed # Null
    /\ Current.parsed.active_section = "travel_mileage"
    /\ Current.parsed.fields["travel_mileage"]["miles"] = Num(2)
    /\ Current.parsed.fields["hospitality"] = FilledSection("hospitality")

\* C5: an edit changes the edited field and possibly active_section, and
\* nothing else of the parsed record: every other field of the four
\* sections, confidence and raw_description keep their values.
C5_EditFrame ==
    [][\A section \in ActiveSection :
        \A field \in TypeSpecificFields(section) :
          \A value \in EditValues(field) :
            EditField(section, field, value) =>
              LET before == Current.parsed
                  after == At(receipts', currentIndex).parsed
              IN  /\ after.fields[section][field] = value
                  /\ \A s \in ActiveSection :
                       \A f \in TypeSpecificFields(s) :
                         (s # section \/ f # field) =>
                            after.fields[s][f] = before.fields[s][f]
                  /\ after.confidence = before.confidence
                  /\ after.raw_description = before.raw_description]_vars

C5_Witness ==
    /\ edits > 0
    /\ HasCurrent
    /\ Current.parsed # Null
    /\ Current.parsed.active_section = "other"
    /\ Current.parsed.fields["other"]["description"] = Str("w")
    /\ Current.parsed.fields["hospitality"] = FilledSection("hospitality")
    /\ Current.parsed.confidence = "high"

\* C6: a successful re-parse leaves the fields of every section but the
\* corrected one as they were on the receipt before the result arrived.
C6_ReparseKeepsOtherSections ==
    [][\A c \in InFlight :
          (ReparseOk(c) /\ schema = "sectioned") =>
              \A i \in Indices(receipts) :
                  (i = c.idx /\ At(receipts, i).parsed # Null) =>
                      \E target \in ActiveSection :
                          \A s \in ActiveSection \ {target} :
                              At(receipts', i).parsed.fields[s] =
                                  At(receipts, i).parsed.fields[s]]_vars

\* C7: the completion of one receipt's extraction writes that call's own
\* result to that receipt and changes no other receipt, whatever else is
\* still in flight.
C7_CompletionsIndependent ==
    [][\A c \in InFlight :
          /\ FetchOk(c) =>
                /\ \A i \in ReceiptOf(c) :
                      /\ At(receipts', i).image_base64 = c.rid
                      /\ At(receipts', i).thumbnail_base64 = c.rid
                      /\ At(receipts', i).parsed \in ParseResponses
                      /\ At(receipts', i).error = NoError
                      /\ ~At(receipts', i).processing
                /\ \A j \in Indices(receipts) \ {c.idx} :
                      At(receipts', j) = At(receipts, j)
          /\ (FetchFail(c) /\ c.attempt = MAX_RETRIES) =>
                /\ \A i \in ReceiptOf(c) :
                      /\ At(receipts', i).parsed = emptyParsed
                      /\ At(receipts', i).error = FailedAfter("HTTP 500")
                /\ \A j \in Indices(receipts) \ {c.idx} :
                      At(receipts', j) = At(receipts, j)]_vars

C7_Witness ==
    /\ Len(receipts) = 2
    /\ ~processing
    /\ appState = "review"
    /\ At(receipts, 0).parsed = emptyParsed
    /\ At(receipts, 0).error = FailedAfter("HTTP 500")
    /\ At(receipts, 1).parsed \in ParseResponses
    /\ At(receipts, 1).image_base64 = At(receipts, 1).id
    /\ At(receipts, 1).error = NoError

C9_BoundedRetries ==
    [][/\ \A c \in BagToSet(calls') :
             c.kind = "parse" => c.attempt \in 1 .. MAX_RETRIES
       /\ \A c \in InFlight :
             /\ FetchFail(c) =>
                   IF c.attempt < MAX_RETRIES
                   THEN \E d \in BagToSet(calls') :
                           /\ d.kind = "parse"
                           /\ d.rid = c.rid
                           /\ d.attempt = c.attempt
                           /\ d.pc = "sleep"
                   ELSE \A d \in BagToSet(calls') :
                           ~(d.kind = "parse" /\ d.rid = c.rid)
             /\ RetryTimer(c) =>
                   \E d \in BagToSet(calls') :
                       /\ d.kind = "parse"
                       /\ d.rid = c.rid
                       /\ d.attempt = c.attempt + 1
                       /\ d.pc = "fetch"
             /\ FetchOk(c) =>
                   \A d \in BagToSet(calls') :
                       ~(d.kind = "parse" /\ d.rid = c.rid)]_vars

C9_Witness ==
    \E c \in InFlight :
        /\ c.kind = "parse"
        /\ c.attempt = MAX_RETRIES
        /\ c.pc = "fetch"
        /\ c.lastError = "HTTP 500"

\* C10: every Process All run eventually finishes: the global processing
\* flag is false again and the app shows the review screen.
C10_ProcessAllFinishes ==
    processing ~> (~processing /\ appState = "review")

C10_Witness ==
    /\ ~processing
    /\ appState = "review"
    /\ processingProgress.total = 2
    /\ processingProgress.current = 2
    /\ \E i \in Indices(receipts) : At(receipts, i).error # NoError

C12_InputErrorNotRetried ==
    [][\A c \in InFlight :
          FetchReject(c) =>
             /\ \A d \in BagToSet(calls') :
                   ~(d.kind = "parse" /\ d.rid = c.rid)
             /\ \A i \in ReceiptOf(c) :
                   /\ At(receipts', i).error # NoError
                   /\ ~At(receipts', i).processing]_vars

\* C13: confidence never blocks approval: whenever the receipt on the review
\* screen has a parsed record and is not processing, whatever its confidence
\* (the placeholder's 'low' included), Approve can be pressed and marks that
\* receipt approved.
C13_ConfidenceNeverBlocks ==
    \A i \in Indices(receipts) :
        \A conf \in Confidences :
            (/\ appState = "review"
             /\ currentIndex = i
             /\ At(receipts, i).parsed # Null
             /\ ~At(receipts, i).processing
             /\ At(receipts, i).parsed.confidence = conf)
            => ENABLED (handleApprove /\ At(receipts', i).approved)

C13_Witness ==
    /\ \E i \in Indices(receipts) :
          /\ At(receipts, i).approved
          /\ At(receipts, i).parsed = emptyParsed
          /\ At(receipts, i).error # NoError
    /\ \E i \in Indices(receipts) :
          /\ At(receipts, i).approved
          /\ At(receipts, i).parsed # Null
          /\ At(receipts, i).parsed.confidence = "high"

\* list positions of the receipts that are approved and have a record
ApprovedParsed(rs) ==
    {i \in Indices(rs) : At(rs, i).approved /\ At(rs, i).parsed # Null}

\* C14: the /generate request holds exactly the approved receipts with a
\* record, in list order: its entries correspond one to one, through an
\* increasing map, to the list positions of those receipts, and every entry
\* is approved.
C14_RequestIsApprovedParsed ==
    [][handleGenerate =>
          LET req == genRequest'.receipts
              sel == ApprovedParsed(receipts)
          IN  /\ Len(req) = Cardinality(sel)
              /\ \A k \in 1 .. Len(req) : req[k].approved
              /\ \E pos \in [1 .. Len(req) -> sel] :
                    /\ \A j, k \in 1 .. Len(req) : j < k => pos[j] < pos[k]
                    /\ \A k \in 1 .. Len(req) :
                          /\ req[k].filename = At(receipts, pos[k]).filename
                          /\ req[k].image_base64 =
                                 At(receipts, pos[k]).image_base64
                          /\ req[k].parsed = At(receipts, pos[k]).parsed]_vars

C14_Witness ==
    /\ generating
    /\ genRequest # NoRequest
    /\ Len(genRequest.receipts) = 1
    /\ Len(receipts) = 2
    /\ \E i \in Indices(receipts) :
          At(receipts, i).parsed # Null /\ ~At(receipts, i).approved

\* C15: a failed /generate call triggers no download, leaves the receipts
\* and the header as they were, tells the user, and puts the generating
\* flag back to false.
C15_GenerateFailureBlocks ==
    [][GenerateFail =>
          /\ download' = download
          /\ receipts' = receipts
          /\ headerInfo' = headerInfo
          /\ storage' = storage
          /\ alertShown' # NoAlert
          /\ ~generating']_vars

C15_Witness ==
    /\ alertShown = ErrorGenerating("Failed to generate")
    /\ ~generating
    /\ download = NoDownload
    /\ genRequest = NoRequest
    /\ appState = "review"
    /\ approvedCount > 0

\* C16: header persistence round trip.  After every step the item stored
\* under 'expenseHeaderInfo' holds exactly the pairs of the current header,
\* and a page load that finds a stored item starts with exactly the pairs
\* of that item as its header: none added, dropped or replaced by a default.
C16_HeaderRoundTrip ==
    [][/\ storage'.present
       /\ Len(storage'.text) = Cardinality(DOMAIN headerInfo')
       /\ \A f \in DOMAIN headerInfo' :
             \E k \in 1 .. Len(storage'.text) :
                 storage'.text[k] = <<f, headerInfo'[f]>>
       /\ (Reload /\ storage.present) =>
             /\ DOMAIN headerInfo' =
                    {storage.text[k][1] : k \in 1 .. Len(storage.text)}
             /\ \A k \in 1 .. Len(storage.text) :
                   headerInfo'[storage.text[k][1]] = storage.text[k][2]]_vars

C16_Witness ==
    /\ loads > 0
    /\ headerInfo["name"] = <<"Ada", "Lovelace">>
    /\ "foreign_currency" \in DOMAIN headerInfo
    /\ headerInfo["foreign_currency"] = "EUR"
    /\ "exchange_rate" \notin DOMAIN headerInfo
    /\ storage = Item(JSONstringify(headerInfo))

\* C17: receipts are deleted only by Clear all: every other step of the page
\* keeps each receipt of the list at its position with its id and filename,
\* so the list can only grow at its end.
C17_OnlyClearAllDeletes ==
    [][~ClearAll =>
          /\ Len(receipts') >= Len(receipts)
          /\ \A i \in Indices(receipts) :
                /\ At(receipts', i).id = At(receipts, i).id
                /\ At(receipts', i).filename = At(receipts, i).filename]_vars

C17_Witness ==
    /\ Len(receipts) = 2
    /\ At(receipts, 0).id = 1
    /\ At(receipts, 1).id = 2
    /\ At(receipts, 0).approved
    /\ At(receipts, 1).error # NoError
    /\ download # NoDownload
    /\ reparses > 0

\* C18: the header changes only through the header form, one field at a
\* time: a step that changes headerInfo is an edit of the form, and it
\* leaves every field but the edited one as it was.
C18_HeaderOnlyByForm ==
    [][headerInfo' # headerInfo =>
          /\ updateHeader \/ updateAnyHeader
          /\ \E field \in FormFields :
                /\ DOMAIN headerInfo' = DOMAIN headerInfo \cup {field}
                /\ \A f \in DOMAIN headerInfo \ {field} :
                      headerInfo'[f] = headerInfo[f]]_vars

C18_Witness ==
    /\ headerInfo["name"] = <<"Ada", "Lovelace">>
    /\ \A f \in HeaderFields \ {"name"} : headerInfo[f] = DefaultHeader[f]
    /\ modelsFetch = "settled"
    /\ selectedModel # DefaultModel
    /\ download = DownloadName(<<"">>)
    /\ reparses > 0
    /\ approvedCount > 0

\* C19: generation starts only when all receipts are approved: on a step
\* that issues the /generate request no receipt of the list is unapproved.
C19_GenerateOnlyAllApproved ==
    [][handleGenerate =>
          \A i \in Indices(receipts) : At(receipts, i).approved]_vars

\* approved receipts of the list whose active section is s
ApprovedIn(s) ==
    {i \in Indices(receipts) :
        /\ At(receipts, i).approved
        /\ At(receipts, i).parsed # Null
        /\ At(receipts, i).parsed.active_section = s}

C22_LateResultOwnReceipt ==
    [][\A c \in InFlight :
          (FetchOk(c) \/ (FetchFail(c) /\ c.attempt = MAX_RETRIES)) =>
              \A i \in Indices(receipts) :
                  At(receipts', i) # At(receipts, i) =>
                      At(receipts, i).id = c.rid]_vars

\* C23: a receipt is processing exactly while an extraction or re-parse
\* call for it is in flight.
C23_ProcessingIffInFlight ==
    \A i \in Indices(receipts) :
        At(receipts, i).processing <=>
            \E c \in InFlight : c.rid = At(receipts, i).id

\* What an input hands to onChange when the user clears it: '' from an
\* emptied text input and from the "Select..." option, parseFloat('') || 0
\* from an emptied number input, e.target.checked = false from a checkbox.
ClearedInput(field) ==
    IF field \in BooleanFields THEN Bool(FALSE)
    ELSE IF field \in NumberFields THEN Num(0)
    ELSE Str("")

\* C24: an edit changes active_section only if the edited section is not
\* the active one and the new value is non-empty: an edit inside the active
\* section, and an edit of another section that clears the field (emptied
\* text, "Select...", emptied number input, unchecked checkbox), leave
\* active_section as it was.
C24_EditKeepsSection ==
    [][\A section \in ActiveSection :
        \A field \in TypeSpecificFields(section) :
          \A value \in FieldInputs(field) :
            (/\ EditField(section, field, value)
             /\ \/ section = Current.parsed.active_section
                \/ value = ClearedInput(field))
            => At(receipts', currentIndex).parsed.active_section
                   = Current.parsed.active_section]_vars

\* C25: a failed re-parse leaves the parsed record and the approved flag of
\* its receipt as they were, attaches a non-empty error message to that
\* receipt and sets its processing flag to false.
C25_FailedReparseKeepsRecord ==
    [][\A c \in InFlight :
          ReparseFail(c) =>
              \A i \in Indices(receipts) :
                  (i = c.idx /\ At(receipts, i).id = c.rid) =>
                      /\ At(receipts', i).parsed = At(receipts, i).parsed
                      /\ At(receipts', i).approved = At(receipts, i).approved
                      /\ At(receipts', i).error \notin {NoError, ""}
                      /\ ~At(receipts', i).processing]_vars

C25_Witness ==
    \E i \in Indices(receipts) :
        /\ At(receipts, i).approved
        /\ At(receipts, i).parsed # Null
        /\ At(receipts, i).error \in ReparseErrors
        /\ ~At(receipts, i).processing
        /\ reparses > 0

\* C26: every approved receipt has a parsed record, and a receipt becomes
\* approved only as the receipt on the review screen, while it has a parsed
\* record and is not processing.
C26_ApprovedHasRecord ==
    [][\A i \in Indices(receipts') :
          At(receipts', i).approved =>
              /\ At(receipts', i).parsed # Null
              /\ (i \notin Indices(receipts) \/ ~At(receipts, i).approved) =>
                    /\ i \in Indices(receipts)
                    /\ i = currentIndex
                    /\ At(receipts, i).parsed # Null
                    /\ ~At(receipts, i).processing]_vars

C26_Witness ==
    /\ \E i \in Indices(receipts) :
          /\ At(receipts, i).approved
          /\ At(receipts, i).parsed # Null
    /\ \E j \in Indices(receipts) :
          /\ ~At(receipts, j).approved
          /\ At(receipts, j).parsed = Null
          /\ currentIndex = j
          /\ appState = "review"

\* C27: approval is never revoked: every step but Clear all (a field edit, a
\* re-parse and its answer, a Process All run and its answers among them)
\* keeps every approved receipt approved, and Generate sends the record an
\* approved receipt has at that moment, whatever changed it since.
C27_ApprovalNeverRevoked ==
    [][/\ ~ClearAll =>
            \A i \in Indices(receipts) :
                At(receipts, i).approved =>
                    /\ i \in Indices(receipts')
                    /\ At(receipts', i).id = At(receipts, i).id
                    /\ At(receipts', i).approved
       /\ ClearAll => \A i \in Indices(receipts') : ~At(receipts', i).approved
       /\ handleGenerate =>
            \A i \in Indices(receipts) :
                At(receipts, i).approved =>
                    \E k \in 1 .. Len(genRequest'.receipts) :
                        /\ genRequest'.receipts[k].parsed = At(receipts, i).parsed
                        /\ genRequest'.receipts[k].filename = At(receipts, i).filename]_vars

\* an approved receipt whose re-parse is in flight while a Process All run
\* extracts a file added later
C27_Witness ==
    /\ schema = "sectioned"
    /\ appState = "upload"
    /\ processing
    /\ \E i \in Indices(receipts) :
          /\ At(receipts, i).approved
          /\ At(receipts, i).processing
          /\ \E c \in InFlight : c.kind = "reparse" /\ c.rid = At(receipts, i).id
    /\ \E j \in Indices(receipts) :
          /\ ~At(receipts, j).approved
          /\ \E c \in InFlight : c.kind = "parse" /\ c.rid = At(receipts, j).id

\* C28: whenever the review screen is shown with a non-empty list,
\* currentIndex is the index of a receipt: 0 <= currentIndex < length.
C28_IndexInRange ==
    (appState = "review" /\ Len(receipts) > 0) =>
        (0 <= currentIndex /\ currentIndex < Len(receipts))

\* C29: Process All issues one extraction call for each receipt that has no
\* parsed record and holds its file, and no other call; a receipt that has a
\* parsed record gets no call and keeps parsed, approved, error and
\* processing (and every other field) as they are.
C29_ProcessAllSkipsParsed ==
    [][processAllReceipts =>
          LET issued == calls' (-) calls
          IN  /\ calls (+) issued = calls'
              /\ \A c \in BagToSet(issued) :
                    /\ c.kind = "parse"
                    /\ CopiesIn(c, issued) = 1
                    /\ c.idx \in Indices(receipts)
                    /\ At(receipts, c.idx).id = c.rid
                    /\ At(receipts, c.idx).parsed = Null
                    /\ At(receipts, c.idx).file
              /\ \A i \in Indices(receipts) :
                    IF At(receipts, i).parsed = Null /\ At(receipts, i).file
                    THEN \E c \in BagToSet(issued) : c.idx = i
                    ELSE /\ \A c \in BagToSet(issued) : c.idx # i
                         /\ At(receipts', i) = At(receipts, i)
              /\ Len(receipts') = Len(receipts)]_vars

\* a second run: the reviewed receipt is left alone while the file added
\* later is extracted
C29_Witness ==
    /\ appState = "upload"
    /\ processing
    /\ processingProgress = [current |-> 0, total |-> 1]
    /\ \E i, j \in Indices(receipts) :
          /\ At(receipts, i).approved
          /\ At(receipts, i).parsed # Null
          /\ ~At(receipts, i).processing
          /\ CallsFor(i) = 0
          /\ At(receipts, j).parsed = Null
          /\ At(receipts, j).processing
          /\ CallsFor(j) = 1

\* C30: at most one /generate request is in flight: a request is issued
\* only by the Generate button, only while none is in flight and at least
\* one receipt is approved; the generating flag is on exactly while a
\* request is in flight, and both the success and the failure of the
\* request put it back to false.
C30_SingleGenerate ==
    [][/\ handleGenerate =>
            /\ ~generating
            /\ genRequest = NoRequest
            /\ approvedCount > 0
            /\ generating'
            /\ genRequest' # NoRequest
       /\ (genRequest' # genRequest /\ genRequest' # NoRequest) => handleGenerate
       /\ generating' <=> genRequest' # NoRequest
       /\ (GenerateOk \/ GenerateFail) =>
            /\ generating
            /\ ~generating'
            /\ genRequest' = NoRequest]_vars

\* a third request in flight, after one that failed and one that succeeded
C30_Witness ==
    /\ generating
    /\ genRequest # NoRequest
    /\ alertShown # NoAlert
    /\ download # NoDownload
    /\ approvedCount > 0

====
